---- MODULE Spec2Model ----
(***************************************************************************)
(* State-machine model of the policy chatbot: the chunker of ingest.py,    *)
(* the conversation memory of memory.py, the ingestion and query handlers  *)
(* of app.py with the Retriever of retriever.py and call_llm of llm.py.    *)
(* Strings are sequences of one-character strings.                         *)
(***************************************************************************)
EXTENDS Integers, Sequences, FiniteSets, TLC

VARIABLES
    text,        \* chunk_text: the argument text
    chunk_size,  \* chunk_text: the argument chunk_size
    overlap,     \* chunk_text: the argument overlap
    ck_pc,       \* chunk_text: "call" | "loop" | "done"
    start,       \* chunk_text: the local start
    chunks,      \* chunk_text: the local list chunks
    starts,      \* history: the value of start at each chunks.append
    extracted,   \* read_pdf_with_pages: page.extract_text() of each page
    pages,       \* read_pdf_with_pages: the list returned, build_corpus's pages
    bc_pc,       \* ingestion: "read" | "build" | "page" | "chunking" | "done" | "no_text"
    bc_p,        \* build_corpus: the pages its for loop has finished
    corpus,      \* build_corpus: the local list corpus
    cb_sessions, \* Chatbot.memory.sessions: session_id -> SessionState
    cb_pc,       \* Chatbot.answer: "ctx" | "search" | "infer" | "update" | "done"
    cb_sid,      \* Chatbot.answer: the argument session_id
    cb_question, \* Chatbot.answer: the argument question
    cb_q_ctx,    \* Chatbot.answer: the local q_ctx
    cb_topic,    \* Chatbot.answer: the local topic
    index_file,  \* the file settings.index_path: None or the corpus it indexes
    store_file,  \* the file settings.store_path: None, empty or its corpus
    retriever,   \* app.retriever: None or a Retriever [index, store]
    ing,         \* per handler thread of /ingest, /upload_pdf: pc and locals
    ingests,     \* history: the number of ingestion requests so far
    sessions,    \* app.memory.sessions: session_id -> a SessionState object
    heap,        \* the SessionState objects: object -> its fields
    ask,         \* per handler thread of /ask, /ask_ui: pc and locals
    asks,        \* history: the number of query requests so far
    retrieved,   \* history: per session, the requests whose search returned
    api_key,     \* llm.HYPERBOLIC_API_KEY is set
    limits       \* the run: how many requests, which sessions and questions

chunkVars == <<text, chunk_size, overlap, ck_pc, start, chunks, starts>>

bcVars == <<extracted, pages, bc_pc, bc_p, corpus>>

cbVars == <<cb_sessions, cb_pc, cb_sid, cb_question, cb_q_ctx, cb_topic>>

ingVars == <<index_file, store_file, retriever, ing, ingests>>

askVars == <<sessions, heap, ask, asks, retrieved>>

srvVars == <<ingVars, askVars, api_key, limits>>

vars == <<chunkVars, bcVars, cbVars, srvVars>>

\* ---------------------------------------------------------------- bounds
MaxTextLen == 6
MaxChunkSize == 3
MaxOverlap == 3
\* iterations of the while loop allowed beyond len(text) before the model
\* stops following a run (a run of the code that gets there never ends)
ExtraIter == 2
\* most tokens of a generated question
MaxTokens == 6
\* most chunks of an ingested document
MaxCorpus == 2
\* most ingestion requests of a run
MaxIngests == 2
\* most query requests of a run
MaxAsks == 2
\* most pages of a PDF
MaxPages == 2
\* most characters extracted from one page of a PDF
MaxPageLen == 3

Chars == {"a", " "}

Min(a, b) == IF a < b THEN a ELSE b

Max(a, b) == IF a > b THEN a ELSE b

Texts == UNION {[1..n -> Chars] : n \in 0..MaxTextLen}

\* ------------------------------------------------------------ chunk_text
\* Python's text[start:end] for 0 <= start <= end <= len(text)
Slice(s, from, to) == SubSeq(s, from + 1, to)

\* line 45-47, seeded fault: the overlap is subtracted twice
NextStartTwice(end) == IF end - 2 * overlap < 0 THEN 0 ELSE end - 2 * overlap

\* lines 45-47: start = end - overlap, clamped at 0
NextStart(end) == IF end - overlap < 0 THEN 0 ELSE end - overlap

\* lines 36-38: chunks = [], start = 0, n = len(text)
ChunkEnter ==
    /\ ck_pc = "call"
    /\ ck_pc' = "loop"
    /\ start' = 0
    /\ chunks' = <<>>
    /\ starts' = <<>>
    /\ UNCHANGED <<text, chunk_size, overlap, bcVars, cbVars, srvVars>>

\* line 39 false: the while condition fails, line 48 returns chunks
ChunkExit ==
    /\ ck_pc = "loop"
    /\ ~(start < Len(text))
    /\ ck_pc' = "done"
    /\ UNCHANGED <<text, chunk_size, overlap, start, chunks, starts, bcVars, cbVars, srvVars>>

\* lines 39-47: one iteration of the while loop
ChunkStep ==
    /\ ck_pc = "loop"
    /\ start < Len(text)
    /\ Len(chunks) < Len(text) + ExtraIter
    /\ LET end == Min(start + chunk_size, Len(text))
       IN  /\ chunks' = Append(chunks, Slice(text, start, end))
           /\ starts' = Append(starts, start)
           /\ IF end = Len(text)
              THEN /\ ck_pc' = "done"
                   /\ start' = start
              ELSE /\ ck_pc' = "loop"
                   /\ start' = NextStart(end)
    /\ UNCHANGED <<text, chunk_size, overlap, bcVars, cbVars, srvVars>>


\* --------------------------------------------------- Python str methods
IsSpace(c) == c = " "

UpperChars == <<"A", "B", "C", "D", "E", "F", "G", "H", "I", "J", "K", "L", "M", "N", "O", "P", "Q", "R", "S", "T", "U", "V", "W", "X", "Y", "Z">>
LowerChars == <<"a", "b", "c", "d", "e", "f", "g", "h", "i", "j", "k", "l", "m", "n", "o", "p", "q", "r", "s", "t", "u", "v", "w", "x", "y", "z">>

\* str.lower() on one character
LowerChar(c) ==
    IF \E i \in 1..Len(UpperChars) : UpperChars[i] = c
    THEN LowerChars[CHOOSE i \in 1..Len(UpperChars) : UpperChars[i] = c]
    ELSE c

\* str.lower()
Lower(s) == [i \in 1..Len(s) |-> LowerChar(s[i])]

\* the positions of s that hold no whitespace
Inked(s) == {i \in 1..Len(s) : ~IsSpace(s[i])}

\* str.strip(): s from its first to its last non-whitespace character
Strip(s) ==
    LET inked == Inked(s)
    IN  IF inked = {} THEN <<>>
        ELSE SubSeq(s, CHOOSE i \in inked : \A j \in inked : i <= j,
                       CHOOSE i \in inked : \A j \in inked : j <= i)

\* the positions where a whitespace-free run of s begins
WordStarts(s) == {i \in Inked(s) : i = 1 \/ IsSpace(s[i - 1])}

\* the positions where a whitespace-free run of s ends
WordEnds(s) == {i \in Inked(s) : i = Len(s) \/ IsSpace(s[i + 1])}

\* str.split(): the whitespace-separated tokens of s, in order: the k-th
\* runs from the k-th start to the k-th end
Split(s) ==
    LET from == WordStarts(s)
        to == WordEnds(s)
    IN  [k \in 1..Cardinality(from) |->
            SubSeq(s, CHOOSE x \in from : Cardinality({y \in from : y < x}) = k - 1,
                      CHOOSE x \in to : Cardinality({y \in to : y < x}) = k - 1)]

\* k in s, for strings
Contains(s, k) ==
    \E i \in 0..(Len(s) - Len(k)) : SubSeq(s, i + 1, i + Len(k)) = k

\* " ".join(ws)
RECURSIVE JoinSpace(_)
JoinSpace(ws) ==
    IF ws = <<>> THEN <<>>
    ELSE IF Len(ws) = 1 THEN ws[1]
    ELSE ws[1] \o <<" ">> \o JoinSpace(Tail(ws))

\* [w for w in ws if keep(w)]
RECURSIVE LongWords(_)
LongWords(ws) ==
    IF ws = <<>> THEN <<>>
    ELSE IF Len(Head(ws)) > 3 THEN <<Head(ws)>> \o LongWords(Tail(ws))
    ELSE LongWords(Tail(ws))

\* ------------------------------------------------------------ memory.py
\* SessionState(): last_topic = "", last_user_question = "", history = []
NewSessionState == [last_topic |-> <<>>, last_user_question |-> <<>>, history |-> <<>>]

\* line 39
pronouns == {<<"i", "t">>, <<"t", "h", "a", "t">>, <<"t", "h", "e", "y">>, <<"t", "h", "i", "s">>, <<"t", "h", "o", "s", "e">>, <<"t", "h", "e", "m">>, <<"t", "h", "e", "r", "e">>, <<"h", "e", "r", "e">>}

\* line 49, seeded fault: "tax" moved to the front of the list
kwsTaxFirst == <<<<"t", "a", "x">>,
        <<"b", "u", "d", "g", "e", "t">>,
        <<"d", "e", "b", "t">>,
        <<"i", "n", "f", "r", "a", "s", "t", "r", "u", "c", "t", "u", "r", "e">>,
        <<"r", "e", "v", "e", "n", "u", "e">>,
        <<"e", "x", "p", "e", "n", "d", "i", "t", "u", "r", "e">>,
        <<"l", "o", "a", "n">>,
        <<"d", "e", "f", "i", "c", "i", "t">>,
        <<"g", "r", "a", "n", "t">>,
        <<"p", "o", "l", "i", "c", "y">>>>

\* line 49
kws == <<<<"b", "u", "d", "g", "e", "t">>,
        <<"d", "e", "b", "t">>,
        <<"i", "n", "f", "r", "a", "s", "t", "r", "u", "c", "t", "u", "r", "e">>,
        <<"t", "a", "x">>,
        <<"r", "e", "v", "e", "n", "u", "e">>,
        <<"e", "x", "p", "e", "n", "d", "i", "t", "u", "r", "e">>,
        <<"l", "o", "a", "n">>,
        <<"d", "e", "f", "i", "c", "i", "t">>,
        <<"g", "r", "a", "n", "t">>,
        <<"p", "o", "l", "i", "c", "y">>>>

ContextPrefix == <<" ", "(", "c", "o", "n", "t", "e", "x", "t", ":", " ">>
ContextSuffix == <<")">>

\* line 40, seeded fault: the pronoun test is dropped
NeedsContextShortOnly(tokens) == Len(tokens) <= 5

\* line 40: len(tokens) <= 5 or any(t in pronouns for t in tokens)
NeedsContext(tokens) ==
    Len(tokens) <= 5 \/ \E i \in 1..Len(tokens) : tokens[i] \in pronouns

\* lines 37-43, given s.last_topic of the session _get returned
contextualize(last_topic, user_question) ==
    LET q == Strip(user_question)
        tokens == Split(Lower(q))
    IN  IF NeedsContext(tokens) /\ last_topic # <<>>
        THEN q \o ContextPrefix \o last_topic \o ContextSuffix
        ELSE q

\* lines 51-53: the first keyword of kws, from position i on, found in ql
RECURSIVE FirstKeyword(_, _)
FirstKeyword(ql, i) ==
    IF i > Len(kws) THEN <<>>
    ELSE IF Contains(ql, kws[i]) THEN kws[i]
    ELSE FirstKeyword(ql, i + 1)

\* lines 49-55
infer_topic(user_question) ==
    LET ql == Lower(user_question)
    IN  IF \E i \in 1..Len(kws) : Contains(ql, kws[i])
        THEN FirstKeyword(ql, 1)
        ELSE JoinSpace(SubSeq(LongWords(Split(ql)), 1, Min(3, Len(LongWords(Split(ql))))))

\* lines 20-23: the sessions dict after _get(session_id) on the dict
SessionsAfterGet(dict, session_id) ==
    IF session_id \notin DOMAIN dict
    THEN [k \in DOMAIN dict \cup {session_id} |->
            IF k = session_id THEN NewSessionState ELSE dict[k]]
    ELSE dict

\* lines 25-30: the sessions dict after update(session_id, user_question, topic)
update(dict, session_id, user_question, topic) ==
    LET got == SessionsAfterGet(dict, session_id)
        s == got[session_id]
        s1 == [s EXCEPT !.history = Append(@, user_question),
                        !.last_user_question = user_question]
        s2 == IF topic # <<>> THEN [s1 EXCEPT !.last_topic = topic] ELSE s1
    IN  [got EXCEPT ![session_id] = s2]

\* ----------------------------------------------------------- chatbot.py
SessionIds == {"ui", "default"}

\* a state the memory of a running Chatbot can be in: no turn yet, or one
\* earlier turn on session "ui"
PriorQuestions == {<<"b", "u", "d", "g", "e", "t", " ", "p", "l", "a", "n">>, <<"h", "e", "l", "l", "o">>}

EmptySessions == [k \in {} |-> NewSessionState]

InitialMemories ==
    {EmptySessions} \cup {update(EmptySessions, "ui", q, infer_topic(q)) : q \in PriorQuestions}

Spaces(n) == [i \in 1..n |-> " "]

RECURSIVE JoinWith(_, _)
JoinWith(ws, sep) ==
    IF ws = <<>> THEN <<>>
    ELSE IF Len(ws) = 1 THEN ws[1]
    ELSE ws[1] \o sep \o JoinWith(Tail(ws), sep)

Words == {<<"I", "t">>, <<"i", "t", "?">>, <<"t", "a", "x">>}

\* <<leading spaces, spaces between tokens, trailing spaces>>
Paddings == {<<0, 1, 0>>, <<1, 1, 0>>, <<0, 2, 1>>}

Q_TaxBudget == <<"W", "h", "a", "t", " ", "i", "s", " ", "t", "h", "e", " ", "t", "a", "x", " ", "a", "n", "d", " ", "b", "u", "d", "g", "e", "t", " ", "p", "o", "l", "i", "c", "y", "?">>
Q_DebtTax == <<"D", "e", "b", "t", " ", "a", "n", "d", " ", "T", "A", "X", " ", "g", "r", "a", "n", "t", "s">>
Q_WhatAboutIt == <<"w", "h", "a", "t", " ", "a", "b", "o", "u", "t", " ", "i", "t", "?">>

Questions ==
    {Spaces(p[1]) \o JoinWith(t, Spaces(p[2])) \o Spaces(p[3]) :
        t \in UNION {[1..n -> Words] : n \in 1..MaxTokens}, p \in Paddings}
    \cup {Q_TaxBudget, Q_DebtTax, Q_WhatAboutIt}

\* line 12: q_ctx = self.memory.contextualize(session_id, question)
CbContextualize ==
    /\ cb_pc = "ctx"
    /\ cb_sessions' = SessionsAfterGet(cb_sessions, cb_sid)
    /\ cb_q_ctx' = contextualize(cb_sessions'[cb_sid].last_topic, cb_question)
    /\ cb_pc' = "search"
    /\ UNCHANGED <<cb_sid, cb_question, cb_topic, chunkVars, bcVars, srvVars>>

\* line 13: results = self.retriever.search(q_ctx, top_k=top_k)
CbSearch ==
    /\ cb_pc = "search"
    /\ cb_pc' = "infer"
    /\ UNCHANGED <<cb_sessions, cb_sid, cb_question, cb_q_ctx, cb_topic, chunkVars, bcVars, srvVars>>

\* line 14: topic = self.memory.infer_topic(question)
CbInferTopic ==
    /\ cb_pc = "infer"
    /\ cb_topic' = infer_topic(cb_question)
    /\ cb_pc' = "update"
    /\ UNCHANGED <<cb_sessions, cb_sid, cb_question, cb_q_ctx, chunkVars, bcVars, srvVars>>

\* line 15: self.memory.update(session_id, question, topic)
CbUpdate ==
    /\ cb_pc = "update"
    /\ cb_sessions' = update(cb_sessions, cb_sid, cb_question, cb_topic)
    /\ cb_pc' = "done"
    /\ UNCHANGED <<cb_sid, cb_question, cb_q_ctx, cb_topic, chunkVars, bcVars, srvVars>>


\* --------------------------------------------------- app.py: ingestion
\* Python's None, an absent file
None == [kind |-> "none"]

\* a file opened for writing and not written yet
EmptyFile == [kind |-> "empty"]

\* no SessionState object
NoObject == <<>>

\* the worker threads that run /ingest and /upload_pdf requests; a request
\* goes to the first free one
Ingesters == {1, 2}

IngOver == {"idle", "done", "failed"}

IngIdle == [pc |-> "idle", corpus |-> None, index |-> None, store |-> None]

\* f with f[k] = v
Put(f, k, v) == [x \in DOMAIN f \cup {k} |-> IF x = k THEN v ELSE f[x]]

\* app.py lines 114-123 (81-100): a request arrives; a missing PDF or one
\* without text is refused with 400, otherwise the corpus is built and
\* embedded (its chunks are counted, its ingestion numbered)
IngestStart(t) ==
    /\ ing[t].pc \in IngOver
    /\ \A u \in Ingesters : u < t => ing[u].pc \notin IngOver
    /\ ingests < limits.ingests
    /\ ingests' = ingests + 1
    /\ \/ ing' = [ing EXCEPT ![t] = [IngIdle EXCEPT !.pc = "failed"]]
       \/ \E n \in 1..MaxCorpus :
             ing' = [ing EXCEPT ![t] = [IngIdle EXCEPT
                        !.pc = "write_index",
                        !.corpus = [kind |-> "corpus", gen |-> ingests + 1, size |-> n]]]
    /\ UNCHANGED <<index_file, store_file, retriever, askVars, api_key, limits,
                   chunkVars, bcVars, cbVars>>

\* ingest.py lines 73-76: faiss.write_index(index, index_path)
WriteIndex(t) ==
    /\ ing[t].pc = "write_index"
    /\ index_file' = ing[t].corpus
    /\ ing' = [ing EXCEPT ![t].pc = "open_store"]
    /\ UNCHANGED <<store_file, retriever, ingests, askVars, api_key, limits,
                   chunkVars, bcVars, cbVars>>

\* ingest.py line 78: store_path.open("w") truncates the file
OpenStore(t) ==
    /\ ing[t].pc = "open_store"
    /\ store_file' = EmptyFile
    /\ ing' = [ing EXCEPT ![t].pc = "dump_store"]
    /\ UNCHANGED <<index_file, retriever, ingests, askVars, api_key, limits,
                   chunkVars, bcVars, cbVars>>

\* ingest.py line 79: json.dump({"corpus": corpus}, f)
DumpStore(t) ==
    /\ ing[t].pc = "dump_store"
    /\ store_file' = ing[t].corpus
    /\ ing' = [ing EXCEPT ![t].pc = "read_index"]
    /\ UNCHANGED <<index_file, retriever, ingests, askVars, api_key, limits,
                   chunkVars, bcVars, cbVars>>

\* retriever.py lines 21-24: both files exist; self.index = faiss.read_index
ReadIndex(t) ==
    /\ ing[t].pc = "read_index"
    /\ IF index_file = None \/ store_file = None
       THEN ing' = [ing EXCEPT ![t].pc = "failed"]
       ELSE ing' = [ing EXCEPT ![t].pc = "read_store", ![t].index = index_file]
    /\ UNCHANGED <<index_file, store_file, retriever, ingests, askVars, api_key,
                   limits, chunkVars, bcVars, cbVars>>

\* retriever.py lines 25-26: self.store = json.load(f); a file another
\* ingestion has just truncated does not parse and the request fails
ReadStore(t) ==
    /\ ing[t].pc = "read_store"
    /\ IF store_file = EmptyFile
       THEN ing' = [ing EXCEPT ![t].pc = "failed"]
       ELSE ing' = [ing EXCEPT ![t].pc = "publish", ![t].store = store_file]
    /\ UNCHANGED <<index_file, store_file, retriever, ingests, askVars, api_key,
                   limits, chunkVars, bcVars, cbVars>>

\* app.py lines 126-127 (103-104): retriever = Retriever()
Publish(t) ==
    /\ ing[t].pc = "publish"
    /\ retriever' = [kind |-> "retriever", index |-> ing[t].index, store |-> ing[t].store]
    /\ ing' = [ing EXCEPT ![t].pc = "done"]
    /\ UNCHANGED <<index_file, store_file, ingests, askVars, api_key, limits,
                   chunkVars, bcVars, cbVars>>

IngestStep(t) ==
    \/ WriteIndex(t)
    \/ OpenStore(t)
    \/ DumpStore(t)
    \/ ReadIndex(t)
    \/ ReadStore(t)
    \/ Publish(t)

\* ------------------------------------------------------- app.py: queries
\* the worker threads that run /ask and /ask_ui requests; a request goes to
\* the first free one
Askers == {1, 2}

\* the questions the clients of a run ask: their topics are "tax", "debt"
\* and "" (no keyword, no word longer than 3 characters)
Q_TaxIt == <<"t", "a", "x", " ", "i", "t">>

AskQuestions == {<<"t", "a", "x", " ", "i", "t">>, <<"D", "e", "b", "t">>, <<"h", "i">>}

AskIdle ==
    [pc |-> "idle", session_id |-> "ui", question |-> <<>>, use_llm |-> FALSE,
     s |-> NoObject, q_ctx |-> <<>>, topic |-> <<>>, used |-> None, appended |-> 0,
     slot |-> 0]

AskOver == {"idle", "answered", "err400", "search_failed", "llm_failed"}

\* the history of the session's current SessionState, [] without one
HistoryOf(sid) == IF sid \in DOMAIN sessions THEN heap[sessions[sid]].history ELSE <<>>

\* the handler has returned or raised: its locals are gone; how often it
\* appended is kept as history
AskEnd(a, outcome) == [AskIdle EXCEPT !.pc = outcome, !.appended = ask[a].appended]

\* history: the request of thread a, whose search returned, ends in outcome
Outcome(a, outcome) ==
    [retrieved EXCEPT ![ask[a].session_id][ask[a].slot].outcome = outcome]

\* a request arrives: AskReq(session_id, question, use_llm); /ask_ui is the
\* session "ui"
AskStart(a) ==
    /\ ask[a].pc \in AskOver
    /\ \A b \in Askers : b < a => ask[b].pc \notin AskOver
    /\ asks < limits.asks
    /\ asks' = asks + 1
    /\ \E sid \in limits.sessions, q \in limits.questions, llm \in BOOLEAN :
          ask' = [ask EXCEPT ![a] = [AskIdle EXCEPT
                     !.pc = "check", !.session_id = sid, !.question = q,
                     !.use_llm = llm]]
    /\ UNCHANGED <<sessions, heap, retrieved, ingVars, api_key, limits,
                   chunkVars, bcVars, cbVars>>

\* seeded fault: the memory is consulted before the retriever is tested
AskCheckAfterGet(a) ==
    /\ ask[a].pc = "check"
    /\ LET sid == ask[a].session_id
           obj == <<sid, a>>
       IN  IF sid \in DOMAIN sessions
           THEN UNCHANGED <<sessions, heap>>
           ELSE /\ sessions' = Put(sessions, sid, obj)
                /\ heap' = Put(heap, obj, NewSessionState)
    /\ IF retriever = None
       THEN ask' = [ask EXCEPT ![a] = AskEnd(a, "err400")]
       ELSE ask' = [ask EXCEPT ![a].pc = "ctx_get"]
    /\ UNCHANGED <<asks, retrieved, ingVars, api_key, limits, chunkVars, bcVars, cbVars>>

\* app.py lines 138-140 (163-165): if retriever is None: raise HTTPException
AskCheck(a) ==
    /\ ask[a].pc = "check"
    /\ IF retriever = None
       THEN ask' = [ask EXCEPT ![a] = AskEnd(a, "err400")]
       ELSE ask' = [ask EXCEPT ![a].pc = "ctx_get"]
    /\ UNCHANGED <<sessions, heap, asks, retrieved, ingVars, api_key, limits,
                   chunkVars, bcVars, cbVars>>

\* app.py line 143, memory.py lines 36, 21: contextualize calls _get, which
\* tests session_id not in self.sessions; with the session there, lines 23
\* and 37-43 return it and compute q_ctx
AskCtxGet(a) ==
    /\ ask[a].pc = "ctx_get"
    /\ LET sid == ask[a].session_id
       IN  IF sid \in DOMAIN sessions
           THEN ask' = [ask EXCEPT
                    ![a].pc = "search",
                    ![a].s = sessions[sid],
                    ![a].q_ctx = contextualize(heap[sessions[sid]].last_topic,
                                               ask[a].question)]
           ELSE ask' = [ask EXCEPT ![a].pc = "ctx_create"]
    /\ UNCHANGED <<sessions, heap, asks, retrieved, ingVars, api_key, limits,
                   chunkVars, bcVars, cbVars>>

\* memory.py lines 22-23, 37-43: self.sessions[session_id] = SessionState(),
\* whatever another thread has stored there since the test of line 21
AskCtxCreate(a) ==
    /\ ask[a].pc = "ctx_create"
    /\ LET sid == ask[a].session_id
           obj == <<sid, a>>
       IN  /\ sessions' = Put(sessions, sid, obj)
           /\ heap' = Put(heap, obj, NewSessionState)
           /\ ask' = [ask EXCEPT
                    ![a].pc = "search",
                    ![a].s = obj,
                    ![a].q_ctx = contextualize(NewSessionState.last_topic,
                                               ask[a].question)]
    /\ UNCHANGED <<asks, retrieved, ingVars, api_key, limits, chunkVars, bcVars, cbVars>>

\* retriever.py lines 33-42: the index can return a position the store does
\* not have when it holds more vectors than the store holds chunks
SearchCanFail(r) == r.index.size > r.store.size

\* app.py lines 144-145 (168-169): results = retriever.search(q_ctx, ...) on
\* the Retriever the global names now (used records it; q_ctx is not read
\* again), then topic = infer_topic(question); corpus[i] raises IndexError for
\* a position beyond the store
AskSearch(a) ==
    /\ ask[a].pc = "search"
    /\ \/ /\ ask' = [ask EXCEPT
                    ![a].pc = "append",
                    ![a].used = retriever,
                    ![a].q_ctx = <<>>,
                    ![a].slot = Len(retrieved[ask[a].session_id]) + 1,
                    ![a].topic = infer_topic(ask[a].question)]
          /\ retrieved' = [retrieved EXCEPT
                    ![ask[a].session_id] =
                        Append(@, [question |-> ask[a].question, outcome |-> "pending"])]
       \/ /\ SearchCanFail(retriever)
          /\ ask' = [ask EXCEPT ![a] = AskEnd(a, "search_failed")]
          /\ UNCHANGED retrieved
    /\ UNCHANGED <<sessions, heap, asks, ingVars, api_key, limits, chunkVars, bcVars, cbVars>>

\* memory.py line 27, seeded fault: the question is not appended
HistoryAppendDropped(history, user_question) == history

\* memory.py line 27: s.history.append(user_question)
HistoryAppend(history, user_question) == Append(history, user_question)

\* app.py line 146 (170), memory.py lines 26-27: update calls _get (the
\* session is there since contextualize) and appends to its history
AskAppend(a) ==
    /\ ask[a].pc = "append"
    /\ LET sid == ask[a].session_id
           fresh == sid \notin DOMAIN sessions
           obj == IF fresh THEN <<sid, a>> ELSE sessions[sid]
           before == IF fresh THEN NewSessionState ELSE heap[obj]
       IN  /\ sessions' = Put(sessions, sid, obj)
           /\ heap' = Put(heap, obj,
                  [before EXCEPT !.history = HistoryAppend(@, ask[a].question)])
           /\ ask' = [ask EXCEPT ![a].pc = "set_last", ![a].s = obj,
                                 ![a].appended = @ + 1]
    /\ UNCHANGED <<asks, retrieved, ingVars, api_key, limits, chunkVars, bcVars, cbVars>>

\* memory.py lines 28-29: s.last_user_question = user_question; if topic:
AskSetLast(a) ==
    /\ ask[a].pc = "set_last"
    /\ heap' = [heap EXCEPT ![ask[a].s].last_user_question = ask[a].question]
    /\ ask' = [ask EXCEPT ![a].pc =
                  IF ask[a].topic # <<>> THEN "set_topic" ELSE "generate"]
    /\ UNCHANGED <<sessions, asks, retrieved, ingVars, api_key, limits,
                   chunkVars, bcVars, cbVars>>

\* memory.py line 30: s.last_topic = topic
AskSetTopic(a) ==
    /\ ask[a].pc = "set_topic"
    /\ heap' = [heap EXCEPT ![ask[a].s].last_topic = ask[a].topic]
    /\ ask' = [ask EXCEPT ![a].pc = "generate"]
    /\ UNCHANGED <<sessions, asks, retrieved, ingVars, api_key, limits,
                   chunkVars, bcVars, cbVars>>

\* app.py lines 149-152 (172-179): the extractive generator returns the
\* answer; llm.py lines 8-9 raise without an API key; line 43 posts the
\* request and waits for the response
AskGenerate(a) ==
    /\ ask[a].pc = "generate"
    /\ IF ~ask[a].use_llm
       THEN /\ ask' = [ask EXCEPT ![a] = AskEnd(a, "answered")]
            /\ retrieved' = Outcome(a, "answered")
       ELSE IF ~api_key
       THEN /\ ask' = [ask EXCEPT ![a] = AskEnd(a, "llm_failed")]
            /\ retrieved' = Outcome(a, "failed")
       ELSE /\ ask' = [ask EXCEPT ![a].pc = "llm_wait"]
            /\ UNCHANGED retrieved
    /\ UNCHANGED <<sessions, heap, asks, ingVars, api_key, limits, chunkVars, bcVars, cbVars>>

\* llm.py lines 43-50: the response arrives and holds an answer
LLMRespond(a) ==
    /\ ask[a].pc = "llm_wait"
    /\ ask' = [ask EXCEPT ![a] = AskEnd(a, "answered")]
    /\ retrieved' = Outcome(a, "answered")
    /\ UNCHANGED <<sessions, heap, asks, ingVars, api_key, limits, chunkVars, bcVars, cbVars>>

\* llm.py lines 43-47: the connection fails or the response is an HTTP error
LLMError(a) ==
    /\ ask[a].pc = "llm_wait"
    /\ ask' = [ask EXCEPT ![a] = AskEnd(a, "llm_failed")]
    /\ retrieved' = Outcome(a, "failed")
    /\ UNCHANGED <<sessions, heap, asks, ingVars, api_key, limits, chunkVars, bcVars, cbVars>>

\* the steps of a request that the server itself takes
AskStep(a) ==
    \/ AskCheck(a)
    \/ AskCtxGet(a)
    \/ AskCtxCreate(a)
    \/ AskSearch(a)
    \/ AskAppend(a)
    \/ AskSetLast(a)
    \/ AskSetTopic(a)
    \/ AskGenerate(a)

\* ------------------------------------- read_pdf_with_pages, build_corpus
\* the characters page.extract_text() returns: a letter, a space, "\x00"
PageChars == {"a", " ", "NUL"}

PageTexts == UNION {[1..n -> PageChars] : n \in 0..MaxPageLen}

\* ingest.py line 27: text.replace("\x00", "")
RemoveNul(s) == SelectSeq(s, LAMBDA c : c # "NUL")

\* ingest.py lines 25-30: the pages from the i-th on, numbered from 1, each
\* with its text cleaned and stripped, a page of empty text left out
RECURSIVE PagesFrom(_, _)
PagesFrom(raw, i) ==
    IF i > Len(raw) THEN <<>>
    ELSE LET t == Strip(RemoveNul(raw[i]))
         IN  (IF t # <<>> THEN <<[page |-> i, text |-> t]>> ELSE <<>>)
                 \o PagesFrom(raw, i + 1)

read_pdf_with_pages(raw) == PagesFrom(raw, 1)

DigitChars == <<"0", "1", "2", "3", "4", "5", "6", "7", "8", "9">>

\* str(n) for n >= 0, as the f-string formats an int
RECURSIVE IntStr(_)
IntStr(n) ==
    IF n < 10 THEN <<DigitChars[n + 1]>>
    ELSE IntStr(n \div 10) \o <<DigitChars[(n % 10) + 1]>>

\* ingest.py line 59: f"p{p['page']}_c{idx}"
ChunkId(page, idx) == <<"p">> \o IntStr(page) \o <<"_", "c">> \o IntStr(idx)

\* ingest.py lines 56-61: the entries appended for page p from its chunks chs
PageEntries(p, chs) ==
    [k \in 1..Len(chs) |->
        [page |-> p.page, chunk_id |-> ChunkId(p.page, k - 1), text |-> Strip(chs[k])]]

\* app.py line 96 (113): pages = read_pdf_with_pages(path); lines 97-98
\* (114-115): no page with text is a 400 and build_corpus is not called
ReadPdf ==
    /\ bc_pc = "read"
    /\ pages' = read_pdf_with_pages(extracted)
    /\ bc_pc' = IF pages' = <<>> THEN "no_text" ELSE "build"
    /\ UNCHANGED <<extracted, bc_p, corpus, chunkVars, cbVars, srvVars>>

\* ingest.py line 53: corpus = []
BuildEnter ==
    /\ bc_pc = "build"
    /\ bc_pc' = "page"
    /\ bc_p' = 0
    /\ corpus' = <<>>
    /\ UNCHANGED <<extracted, pages, chunkVars, cbVars, srvVars>>

\* ingest.py lines 54-55: the next page p, the call chunk_text(p["text"], ...)
BuildCallChunk ==
    /\ bc_pc = "page"
    /\ bc_p < Len(pages)
    /\ bc_pc' = "chunking"
    /\ text' = pages[bc_p + 1].text
    /\ ck_pc' = "call"
    /\ start' = 0
    /\ chunks' = <<>>
    /\ starts' = <<>>
    /\ UNCHANGED <<chunk_size, overlap, extracted, pages, bc_p, corpus, cbVars, srvVars>>

\* ingest.py lines 56-61: chunk_text returned; one entry per chunk
BuildAppend ==
    /\ bc_pc = "chunking"
    /\ ck_pc = "done"
    /\ corpus' = corpus \o PageEntries(pages[bc_p + 1], chunks)
    /\ bc_p' = bc_p + 1
    /\ bc_pc' = "page"
    /\ ck_pc' = "off"
    /\ UNCHANGED <<text, chunk_size, overlap, start, chunks, starts, extracted, pages,
                   cbVars, srvVars>>

\* ingest.py line 62: the for loop is over, return corpus
BuildReturn ==
    /\ bc_pc = "page"
    /\ bc_p = Len(pages)
    /\ bc_pc' = "done"
    /\ UNCHANGED <<extracted, pages, bc_p, corpus, chunkVars, cbVars, srvVars>>

\* ------------------------------------------------------ specifications
SrvIdle ==
    /\ index_file = None
    /\ store_file = None
    /\ retriever = None
    /\ ing = [t \in Ingesters |-> IngIdle]
    /\ ingests = 0
    /\ sessions = <<>>
    /\ heap = <<>>
    /\ ask = [a \in Askers |-> AskIdle]
    /\ asks = 0
    /\ retrieved = [sid \in SessionIds |-> <<>>]
    /\ api_key = FALSE
    /\ limits = [ingests |-> 0, asks |-> 0, sessions |-> {}, questions |-> {}]

ChunkIdle ==
    /\ text = <<>>
    /\ chunk_size = 1
    /\ overlap = 0
    /\ ck_pc = "off"
    /\ start = 0
    /\ chunks = <<>>
    /\ starts = <<>>

BcIdle ==
    /\ extracted = <<>>
    /\ pages = <<>>
    /\ bc_pc = "off"
    /\ bc_p = 0
    /\ corpus = <<>>

CbIdle ==
    /\ cb_sessions = EmptySessions
    /\ cb_pc = "off"
    /\ cb_sid = "ui"
    /\ cb_question = <<>>
    /\ cb_q_ctx = <<>>
    /\ cb_topic = <<>>

\* a call chunk_text(text, chunk_size, overlap)
InitChunk ==
    /\ BcIdle
    /\ CbIdle
    /\ SrvIdle
    /\ text \in Texts
    /\ chunk_size \in 1..MaxChunkSize
    /\ overlap \in 0..MaxOverlap
    /\ ck_pc = "call"
    /\ start = 0
    /\ chunks = <<>>
    /\ starts = <<>>

NextChunk == ChunkEnter \/ ChunkExit \/ ChunkStep

SpecChunk == InitChunk /\ [][NextChunk]_vars /\ WF_vars(NextChunk)

\* a call answer(session_id, question) on a Chatbot
InitMem ==
    /\ ChunkIdle
    /\ BcIdle
    /\ SrvIdle
    /\ cb_sessions \in InitialMemories
    /\ cb_pc = "ctx"
    /\ cb_sid \in SessionIds
    /\ cb_question \in Questions
    /\ cb_q_ctx = <<>>
    /\ cb_topic = <<>>

NextMem == CbContextualize \/ CbSearch \/ CbInferTopic \/ CbUpdate

SpecMem == InitMem /\ [][NextMem]_vars

\* the server after start-up: no file, no retriever
FreshServer == [index_file |-> None, store_file |-> None, retriever |-> None, ingests |-> 0]

\* the server after two ingestions, of a one-chunk and of a two-chunk
\* document, whose writes interleaved (RacedServerReached)
RacedServer ==
    LET c1 == [kind |-> "corpus", gen |-> 1, size |-> 1]
        c2 == [kind |-> "corpus", gen |-> 2, size |-> 2]
    IN  [index_file |-> c2, store_file |-> c1,
         retriever |-> [kind |-> "retriever", index |-> c2, store |-> c1],
         ingests |-> 2]

\* a server in one of the given states, with no request in progress and
\* no session, and the requests of the run: n_ingests ingestions in all (those
\* before the state count), n_asks queries
InitServer(states, n_ingests, n_asks, sids, questions) ==
    /\ ChunkIdle
    /\ BcIdle
    /\ CbIdle
    /\ \E st \in states :
          /\ index_file = st.index_file
          /\ store_file = st.store_file
          /\ retriever = st.retriever
          /\ ingests = st.ingests
          /\ limits = [ingests |-> Max(st.ingests, n_ingests), asks |-> n_asks,
                       sessions |-> sids, questions |-> questions]
    /\ ing = [t \in Ingesters |-> IngIdle]
    /\ sessions = <<>>
    /\ heap = <<>>
    /\ ask = [a \in Askers |-> AskIdle]
    /\ asks = 0
    /\ retrieved = [sid \in SessionIds |-> <<>>]
    /\ api_key \in BOOLEAN

NextServer ==
    \/ \E t \in Ingesters : IngestStart(t) \/ IngestStep(t)
    \/ \E a \in Askers : AskStart(a) \/ AskStep(a) \/ LLMRespond(a) \/ LLMError(a)

\* a step of a worker thread on the request it has started
ServerStep == (\E t \in Ingesters : IngestStep(t)) \/ (\E a \in Askers : AskStep(a))

\* the worker threads run the requests they have started (each request is a
\* bounded number of steps, so none starves); no client has to send a
\* request and the summarization service does not have to respond
ServerFairness == WF_vars(ServerStep)

\* concurrent ingestions and one query
SpecIngest ==
    InitServer({FreshServer}, MaxIngests, 1, {"ui"}, {Q_TaxIt}) /\ [][NextServer]_vars

\* concurrent queries, and one ingestion, on a fresh server and on one whose
\* two ingestions raced
SpecAsk ==
    InitServer({FreshServer, RacedServer}, 1, MaxAsks, SessionIds, AskQuestions)
        /\ [][NextServer]_vars

\* one ingestion and one query, every started request run on
SpecLLM ==
    InitServer({FreshServer}, 1, 1, {"ui"}, {Q_TaxIt})
        /\ [][NextServer]_vars /\ ServerFairness

\* the ingestion of one PDF up to its corpus: read_pdf_with_pages on the
\* texts extracted from its pages, then build_corpus with the settings
InitCorpus ==
    /\ CbIdle
    /\ SrvIdle
    /\ extracted \in UNION {[1..n -> PageTexts] : n \in 1..MaxPages}
    /\ pages = <<>>
    /\ bc_pc = "read"
    /\ bc_p = 0
    /\ corpus = <<>>
    /\ text = <<>>
    /\ chunk_size \in 1..MaxChunkSize
    /\ overlap \in 0..MaxOverlap
    /\ ck_pc = "off"
    /\ start = 0
    /\ chunks = <<>>
    /\ starts = <<>>

\* a page's text is never empty, so the while test of chunk_text (line 39)
\* is true when first reached and ChunkExit has no part in these runs
NextCorpus ==
    \/ ReadPdf
    \/ BuildEnter
    \/ BuildCallChunk
    \/ ChunkEnter
    \/ ChunkStep
    \/ BuildAppend
    \/ BuildReturn

SpecCorpus == InitCorpus /\ [][NextCorpus]_vars

\* ------------------------------------------------- claims on chunk_text
ChunkValid == chunk_size > 0 /\ 0 <= overlap /\ overlap < chunk_size

Last(s) == s[Len(s)]

C1_Shape ==
    ChunkValid =>
        /\ Len(starts) = Len(chunks)
        /\ Len(chunks) <= Len(text)
        /\ \A k \in 1..Len(chunks) :
              chunks[k] = Slice(text, starts[k], Min(starts[k] + chunk_size, Len(text)))
        /\ \A k \in 1..(Len(chunks) - 1) :
              /\ starts[k] < starts[k + 1]
              /\ Len(chunks[k]) = chunk_size
        /\ ck_pc = "done" =>
              /\ \A i \in 1..Len(text) :
                    \E k \in 1..Len(chunks) :
                        starts[k] < i /\ i <= starts[k] + Len(chunks[k])
              /\ (text # <<>> => chunks # <<>>)

\* C1: with chunk_size > 0 and 0 <= overlap < chunk_size, chunk_text
\* terminates (within len(text) iterations), the start positions of its
\* chunks strictly increase, every chunk but the last has length chunk_size,
\* each chunk is the slice at its start, and the spans of the returned chunks
\* cover every character of text (so the result is non-empty for a non-empty
\* text).
C1_ChunkingCoverage ==
    /\ []C1_Shape
    /\ (ChunkValid /\ ck_pc = "call") ~> (ck_pc = "done")

\* C1 witness: a valid call with a positive overlap returned three or more
\* chunks, the last one shorter than chunk_size.
C1_Witness ==
    /\ ChunkValid
    /\ overlap > 0
    /\ ck_pc = "done"
    /\ Len(chunks) >= 3
    /\ Len(Last(chunks)) < chunk_size

\* C3: chunk_text called with overlap >= chunk_size on a text longer than
\* chunk_size is rejected and never loops: no iteration of its while loop
\* leaves start where it was or moves it back (from such a state the loop
\* repeats the same iteration forever).
C3_BadOverlapRejected ==
    (overlap >= chunk_size /\ Len(text) > chunk_size) =>
        ~(ck_pc = "loop" /\ starts # <<>> /\ start <= Last(starts))

\* ------------------------------------------- claims on ConversationMemory
\* contextualize has returned and update has not yet run
CbContextualized == cb_pc \in {"search", "infer", "update"}

\* the session's last_topic that contextualize read
CbLastTopic == cb_sessions[cb_sid].last_topic

\* the question has 5 or fewer whitespace-separated tokens, or one of its
\* tokens is, ignoring case, one of the eight pronouns
C5_ShortOrPronoun(q) ==
    LET tokens == Split(q)
    IN  \/ Len(tokens) <= 5
        \/ \E i \in 1..Len(tokens) : Lower(tokens[i]) \in pronouns

C5_Context(topic) == <<" ", "(", "c", "o", "n", "t", "e", "x", "t", ":", " ">> \o topic \o <<")">>

\* C5 as stated: contextualize returns the question itself with the suffix
\* " (context: <last_topic>)" exactly when last_topic is non-empty and the
\* question has at most 5 tokens or a pronoun token, and otherwise the
\* question unchanged, character for character.
C5_ContextualizeVerbatim ==
    CbContextualized =>
        cb_q_ctx = IF CbLastTopic # <<>> /\ C5_ShortOrPronoun(cb_question)
                   THEN cb_question \o C5_Context(CbLastTopic)
                   ELSE cb_question

\* C5 amended: the same, on the question with its leading and trailing
\* whitespace stripped: contextualize returns question.strip() with the
\* suffix in the one case and question.strip() alone in the other.
C5_ContextualizeStripped ==
    CbContextualized =>
        cb_q_ctx = IF CbLastTopic # <<>> /\ C5_ShortOrPronoun(cb_question)
                   THEN Strip(cb_question) \o C5_Context(CbLastTopic)
                   ELSE Strip(cb_question)

\* C5 witness: a question of six tokens, one of them a pronoun in capitals,
\* with leading whitespace, got the suffix of a non-empty last_topic.
C5_Witness ==
    /\ CbContextualized
    /\ Len(Split(cb_question)) = 6
    /\ CbLastTopic # <<>>
    /\ cb_question # Strip(cb_question)
    /\ cb_q_ctx = Strip(cb_question) \o C5_Context(CbLastTopic)

CbTopicInferred == cb_pc \in {"update", "done"}

\* C6 as stated: infer_topic("What is the tax and budget policy?") is "tax".
C6_TaxBudgetIsTax ==
    (CbTopicInferred /\ cb_question = Q_TaxBudget) => cb_topic = <<"t", "a", "x">>

\* C6 amended: a question that contains keywords of the list takes the
\* keyword path and gets the contained keyword that comes first in the list
\* budget, debt, infrastructure, tax, ...; for "What is the tax and budget
\* policy?" that is "budget".
C6_FirstKeywordInListOrder ==
    CbTopicInferred =>
        /\ (\E i \in 1..Len(kws) : Contains(Lower(cb_question), kws[i])) =>
              \E i \in 1..Len(kws) :
                  /\ cb_topic = kws[i]
                  /\ Contains(Lower(cb_question), kws[i])
                  /\ \A j \in 1..(i - 1) : ~Contains(Lower(cb_question), kws[j])
        /\ cb_question = Q_TaxBudget => cb_topic = <<"b", "u", "d", "g", "e", "t">>

\* C6 witness: the topic of "What is the tax and budget policy?" was inferred.
C6_Witness ==
    /\ cb_pc = "done"
    /\ cb_question = Q_TaxBudget
    /\ cb_topic = <<"b", "u", "d", "g", "e", "t">>

\* ------------------------------------------------- claims on the server
IngestInFlight(t) == ing[t].pc \notin IngOver

\* C2: a search made while an ingestion is in flight uses the index and the
\* store of one and the same ingestion, the old one or the new one.
C2_SearchUsesOnePair ==
    [][\A a \in Askers :
          (/\ ask[a].pc = "search"
           /\ ask'[a].pc # "search"
           /\ \E t \in Ingesters : IngestInFlight(t))
          => retriever.index.gen = retriever.store.gen]_vars

\* C4: the pair a Retriever has loaded after save_index_and_store is
\* length-consistent: its store holds as many chunks as its index vectors.
C4_LoadedPairSameLength ==
    \A t \in Ingesters :
        ing[t].pc = "publish" => ing[t].index.size = ing[t].store.size

\* the state RacedServer of the specification SpecAsk is one the server
\* reaches (its negation is violated under SpecIngest)
RacedServerReached ==
    /\ index_file = RacedServer.index_file
    /\ store_file = RacedServer.store_file
    /\ retriever = RacedServer.retriever
    /\ ingests = RacedServer.ingests
    /\ \A t \in Ingesters : ing[t].pc = "done"
    /\ \A a \in Askers : ask[a].pc = "idle"
    /\ sessions = <<>>

\* C7: a query that finds the retriever unset ends with the error of line
\* 140 (165) and no answer; it has made no search, and the step leaves the
\* sessions, every SessionState and the record of searches as they were.
C7_UnsetRetrieverFails ==
    [][\A a \in Askers :
          (ask[a].pc = "check" /\ ask'[a].pc # "check" /\ retriever = None)
          => /\ ask'[a].pc = "err400"
             /\ ask'[a].used = None
             /\ ask'[a].appended = 0
             /\ UNCHANGED <<sessions, heap, retrieved>>]_vars

\* C7 witness: a query has failed on the unset retriever.
C7_Witness ==
    /\ retriever = None
    /\ \E a \in Askers : ask[a].pc = "err400"
    /\ sessions = <<>>

\* C8: every query that has started eventually ends, with an answer or with
\* a failure (the summarization call cannot wait forever).
C8_QueryCompletes ==
    \A a \in Askers : (ask[a].pc \notin AskOver) ~> (ask[a].pc \in AskOver)

RECURSIVE Count(_, _)
\* how often x occurs in the sequence s
Count(s, x) ==
    IF s = <<>> THEN 0 ELSE (IF Head(s) = x THEN 1 ELSE 0) + Count(Tail(s), x)

QuestionsOf(log) == [i \in 1..Len(log) |-> log[i].question]

IsAnswered(entry) == entry.outcome = "answered"

RECURSIVE HistoryCount(_, _, _)
\* how often q occurs in the histories of the SessionState objects that the
\* threads of as have created for session sid
HistoryCount(as, sid, q) ==
    IF as = {} THEN 0
    ELSE LET a == CHOOSE x \in as : TRUE
         IN  (IF <<sid, a>> \in DOMAIN heap THEN Count(heap[<<sid, a>>].history, q) ELSE 0)
             + HistoryCount(as \ {a}, sid, q)

\* the requests on session sid that are between their search and their append
AboutToAppend(sid, q) ==
    {a \in Askers : ask[a].pc = "append" /\ ask[a].session_id = sid /\ ask[a].question = q}

SessionBusy(sid) ==
    \E a \in Askers : ask[a].pc \notin AskOver /\ ask[a].session_id = sid

\* C9 as stated: with no request of a session in progress, the session's
\* history is exactly the questions, in order, of its requests that returned
\* an answer.
C9_HistoryIsAnswered ==
    \A sid \in SessionIds :
        ~SessionBusy(sid) =>
            HistoryOf(sid) = QuestionsOf(SelectSeq(retrieved[sid], IsAnswered))

\* C9 amended: update runs exactly once per request whose search returned,
\* after the search and before the answer is generated. A request that ends
\* on the unset retriever or in the search has appended nothing and set no
\* field; every request past its update has searched and appended once,
\* whether it then returns an answer or fails in the summarization; and each
\* question is in the histories of its session as often as searches for it
\* returned (less the requests about to append).
C9_UpdateOncePerSearch ==
    /\ \A a \in Askers :
          /\ ask[a].pc \in {"idle", "check", "ctx_get", "ctx_create", "search",
                            "err400", "search_failed"} => ask[a].appended = 0
          /\ ask[a].pc = "append" => ask[a].appended = 0 /\ ask[a].used # None
          /\ ask[a].pc \in {"set_last", "set_topic", "generate", "llm_wait"} =>
                ask[a].appended = 1 /\ ask[a].used # None
          /\ ask[a].pc \in {"answered", "llm_failed"} => ask[a].appended = 1
    /\ \A sid \in SessionIds, q \in AskQuestions :
          HistoryCount(Askers, sid, q) + Cardinality(AboutToAppend(sid, q))
              = Count(QuestionsOf(retrieved[sid]), q)

\* C9 witness: one request has failed in its search without appending, and
\* another has failed in the summarization after appending its question.
C9_Witness ==
    /\ \E a \in Askers : ask[a].pc = "search_failed" /\ ask[a].appended = 0
    /\ \E a \in Askers : ask[a].pc = "llm_failed" /\ ask[a].appended = 1
    /\ \E sid \in SessionIds :
          /\ HistoryOf(sid) # <<>>
          /\ \A i \in 1..Len(retrieved[sid]) : retrieved[sid][i].outcome = "failed"

\* the current SessionState of a session, a new one without one
SessionStateOf(sid) ==
    IF sid \in DOMAIN sessions THEN heap[sessions[sid]] ELSE NewSessionState

RECURSIVE SerialUpdates(_, _, _)
\* the sessions dict after update(sid, q, infer_topic(q)) for each q of qs in turn
SerialUpdates(dict, sid, qs) ==
    IF qs = <<>> THEN dict
    ELSE SerialUpdates(update(dict, sid, Head(qs), infer_topic(Head(qs))), sid, Tail(qs))

Orders(n) == {p \in [1..n -> 1..n] : \A i, j \in 1..n : p[i] = p[j] => i = j}

\* C10: once the requests of a session have finished, its state is the one
\* that the updates of the requests whose search returned produce when run
\* one after the other in some order.
C10_UpdatesSerialized ==
    \A sid \in SessionIds :
        ~SessionBusy(sid) =>
            \E p \in Orders(Len(retrieved[sid])) :
                SessionStateOf(sid) =
                    SessionsAfterGet(
                        SerialUpdates(EmptySessions, sid,
                            [i \in 1..Len(retrieved[sid]) |->
                                retrieved[sid][p[i]].question]),
                        sid)[sid]

\* ----------------------------------------------- claims on build_corpus
\* every page handed to build_corpus has a text that is non-empty and has
\* no whitespace at either end, as read_pdf_with_pages leaves it
PagesStripped ==
    \A i \in 1..Len(pages) : pages[i].text # <<>> /\ Strip(pages[i].text) = pages[i].text

\* no entry of the corpus has an empty text
CorpusTextsNonEmpty == \A i \in 1..Len(corpus) : corpus[i].text # <<>>

\* no two entries of the corpus have the same chunk_id
ChunkIdsUnique ==
    \A i, j \in 1..Len(corpus) : corpus[i].chunk_id = corpus[j].chunk_id => i = j

\* C11: for pages of non-empty stripped text and a valid chunk_size and
\* overlap, no entry of the corpus build_corpus builds has an empty text,
\* and the chunk_ids "p<page>_c<index>" are unique within the corpus.
C11_CorpusNonEmptyUniqueIds ==
    (ChunkValid /\ PagesStripped /\ bc_pc \in {"page", "chunking", "done"}) =>
        (CorpusTextsNonEmpty /\ ChunkIdsUnique)

\* C11, the half the code keeps: with a valid chunk_size and overlap the
\* chunk_ids of the corpus are unique.
C11_ChunkIdsUnique ==
    (ChunkValid /\ bc_pc \in {"page", "chunking", "done"}) => ChunkIdsUnique

\* C11's case: build_corpus returned a corpus of two pages for a valid
\* chunk_size and overlap, one of its entries with an empty text
C11_EmptyEntryReturned ==
    /\ ChunkValid
    /\ PagesStripped
    /\ bc_pc = "done"
    /\ Len(pages) = 2
    /\ ~CorpusTextsNonEmpty

====
